---- MODULE Spec2Model ----
(***************************************************************************)
(* Lane preparation of bcbio-nextgen (bcbio/pipeline/lane.py):             *)
(* process_lane, _prep_fastq_files, _update_config_w_custom, trim_lane and *)
(* process_alignment.                                                      *)
(*                                                                         *)
(* Python values are written as follows.  A dict is a function whose       *)
(* DOMAIN is its key set.  A value that may be None is None == <<>> or     *)
(* Some(v) == <<v>>.  Scalars of the configuration are written as their    *)
(* Python literal ("1000", "True", "bwa", "" for the empty string).        *)
(* Strings whose characters matter (lane names, barcodes, paths) are       *)
(* sequences of one-character strings.  Configuration objects live on a    *)
(* heap so that copying and aliasing are visible.                          *)
(***************************************************************************)
EXTENDS Integers, Sequences, FiniteSets, TLC

VARIABLES lane_items, cfgHeap, algHeap, config, lane_name, bc_files, out,
          pc, i, units, plans, calls, inp, res

vars == <<lane_items, cfgHeap, algHeap, config, lane_name, bc_files, out,
          pc, i, units, plans, calls, inp, res>>

laneVars == <<lane_items, cfgHeap, algHeap, config, lane_name, bc_files, out, i,
              units, plans>>

(* ------------------------------ bounds -------------------------------- *)

MaxSamples == 2

MaxChunks == 2

(* --------------------------- Python values ---------------------------- *)

None == <<>>

Some(v) == <<v>>

EmptyDict == [k \in {} |-> None]

\* dict.get(k, default)
Get(d, k, default) == IF k \in DOMAIN d THEN d[k] ELSE default

\* for key, val in o.iteritems(): d[key] = val
Overlay(d, o) == [k \in DOMAIN d \cup DOMAIN o |-> IF k \in DOMAIN o THEN o[k] ELSE d[k]]

\* truth value of a scalar: None, 0, False and "" are false
Truthy(v) == v /= None /\ v[1] \notin {"0", "False", ""}

Digit(d) == CASE d = 0 -> "0" [] d = 1 -> "1" [] d = 2 -> "2" [] d = 3 -> "3"
              [] d = 4 -> "4" [] d = 5 -> "5" [] d = 6 -> "6" [] d = 7 -> "7"
              [] d = 8 -> "8" [] d = 9 -> "9"

RECURSIVE Str(_)
\* "{0}".format(n) of a non-negative integer
Str(n) == IF n < 10 THEN <<Digit(n)>> ELSE Str(n \div 10) \o <<Digit(n % 10)>>

\* s.endswith(suf)
EndsWith(s, suf) ==
    Len(s) >= Len(suf) /\ SubSeq(s, Len(s) - Len(suf) + 1, Len(s)) = suf

(* ------------------------ _update_config_w_custom --------------------- *)

NameRemaps ==
    (Some("variant") :> <<Some("SNP calling"), Some("variant")>>) @@
    (Some("SNP calling") :> <<Some("SNP calling"), Some("variant")>>)

\* A copy that shares the algorithm mapping with the original.
ShallowCopy(ch, ah, r) ==
    [cfgHeap |-> Append(ch, ch[r]), algHeap |-> ah, ref |-> Len(ch) + 1]

\* copy.deepcopy(config): a new configuration object with a new algorithm
\* mapping (the other sections are never written and are held by value).
DeepCopy(ch, ah, r) ==
    [cfgHeap |-> Append(ch, [ch[r] EXCEPT !["algorithm"] = Len(ah) + 1]),
     algHeap |-> Append(ah, ah[ch[r]["algorithm"]]),
     ref |-> Len(ch) + 1]

\* The analysis types whose bundle is applied, in order.
AnalysisTypes(lane_info) ==
    LET base_name == Get(lane_info, "analysis", None)
    IN  Get(NameRemaps, base_name, <<base_name>>)

\* for analysis_type in ...: custom = ...get(analysis_type, None); if custom: overlay
RECURSIVE ApplyCustom(_, _, _)
ApplyCustom(alg, custom_algorithms, types) ==
    IF types = <<>> THEN alg
    ELSE LET custom == Get(custom_algorithms, Head(types), EmptyDict)
             next == IF DOMAIN custom /= {} THEN Overlay(alg, custom) ELSE alg
         IN  ApplyCustom(next, custom_algorithms, Tail(types))

\* The sample's overrides applied under, not over, what is already there.
ApplyLaneAlgorithmUnder(alg, lane_info) ==
    Overlay(Get(lane_info, "algorithm", EmptyDict), alg)

\* for key, val in lane_info.get("algorithm", {}).iteritems(): config["algorithm"][key] = val
ApplyLaneAlgorithm(alg, lane_info) ==
    Overlay(alg, Get(lane_info, "algorithm", EmptyDict))

\* The result of one call: raised is TRUE when config["custom_algorithms"]
\* raises KeyError; otherwise ref is the returned configuration.
UpdateConfigWCustom(ch, ah, cref, lane_info) ==
    LET cp == DeepCopy(ch, ah, cref)
        obj == cp.cfgHeap[cp.ref]
        aref == obj["algorithm"]
    IN  IF "custom_algorithms" \notin DOMAIN obj
        THEN [raised |-> TRUE, cfgHeap |-> cp.cfgHeap, algHeap |-> cp.algHeap, ref |-> cref]
        ELSE LET a1 == ApplyCustom(cp.algHeap[aref], obj["custom_algorithms"],
                                   AnalysisTypes(lane_info))
                 a2 == ApplyLaneAlgorithm(a1, lane_info)
             IN  [raised |-> FALSE, cfgHeap |-> cp.cfgHeap,
                  algHeap |-> [cp.algHeap EXCEPT ![aref] = a2], ref |-> cp.ref]

\* The configuration a reference denotes, its algorithm mapping read through.
Deref(ch, ah, r) == [ch[r] EXCEPT !["algorithm"] = ah[ch[r]["algorithm"]]]

(* --------------------------- _prep_fastq_files ------------------------ *)

\* A file is <<name>>; chunk k of it is <<name, k>>.
Chunk(f, k) == <<f[1], k>>

\* split_read_files: n chunks, one unit per chunk, numbered from zero.
SplitReadFiles(fastq1, fastq2, n) ==
    [k \in 1..n |->
        <<Chunk(fastq1, k - 1),
          IF fastq2 = None THEN None ELSE Some(Chunk(fastq2[1], k - 1)),
          Some(k - 1)>>]

SplitSize(cfg) ==
    Get(Get(cfg, "distributed", EmptyDict), "align_split_size",
        Get(cfg["algorithm"], "align_split_size", None))

Dirs == [work |-> <<"w">>, fastq |-> <<"q">>]

PrepFastqFiles(item, bcf, dirs, cfg, n) ==
    LET fastq1 == bcf[item["barcode_id"]][1]
        fastq2 == bcf[item["barcode_id"]][2]
        split_size == SplitSize(cfg)
    IN  IF Truthy(split_size)
        THEN [units |-> SplitReadFiles(fastq1, fastq2, n),
              calls |-> << [fn |-> "split_read_files", fastq1 |-> fastq1,
                            fastq2 |-> fastq2, split_size |-> split_size,
                            split_dir |-> <<dirs.work, "align_splitprep",
                                            item["description"]>>] >>]
        ELSE [units |-> << <<fastq1, fastq2, None>> >>, calls |-> <<>>]

(* ------------------------------ process_lane -------------------------- *)

FcName == <<"F", "C">>

FcDate == <<"2", "0">>

\* "%s_%s_%s" % (lane, fc_date, fc_name)
BaseLaneName(items, fc_date, fc_name) ==
    items[1]["lane"] \o <<"_">> \o fc_date \o <<"_">> \o fc_name

\* The split suffix put before the barcode.
CurLaneNameSwapped(base, item, lane_ext) ==
    LET n1 == IF lane_ext /= None THEN base \o <<"_", "s">> \o Str(lane_ext[1]) ELSE base
    IN  IF item["barcode_id"] /= None THEN n1 \o <<"_">> \o item["barcode_id"][1] ELSE n1

\* The barcode left out of the name.
CurLaneNameNoBarcode(base, item, lane_ext) ==
    IF lane_ext /= None THEN base \o <<"_", "s">> \o Str(lane_ext[1]) ELSE base

CurLaneName(base, item, lane_ext) ==
    LET n1 == IF item["barcode_id"] /= None
              THEN base \o <<"_">> \o item["barcode_id"][1] ELSE base
    IN  IF lane_ext /= None THEN n1 \o <<"_", "s">> \o Str(lane_ext[1]) ELSE n1

CurLaneDesc(item, alg) ==
    IF Get(item, "name", <<>>) /= <<>> /\ Truthy(Get(alg, "include_short_name", Some("True")))
    THEN item["name"] \o <<" ", ":", " ">> \o item["description"]
    ELSE item["description"]

\* The record put in front of the list.
PrependRecord(o, r) == <<r>> \o o

\* out.append(...)
AppendRecord(o, r) == Append(o, r)

Record(fastq1, fastq2, item, name, desc, dirs, cref) ==
    [fastq1 |-> fastq1, fastq2 |-> fastq2, item |-> item, lane_name |-> name,
     lane_desc |-> desc, dirs |-> dirs, config |-> cref]

(* ------------------------------- inputs ------------------------------- *)

\* the heap position of the configuration object the caller passes in
CallerRef == 1

BarcodeA == Some(<<"A">>)

BarcodeS0 == Some(<<"s", "0">>)

SampleNone ==
    ("barcode_id" :> None) @@ ("description" :> <<"d", "n">>) @@ ("name" :> <<"n">>)

SampleA == ("barcode_id" :> BarcodeA) @@ ("description" :> <<"d", "a">>)

SampleS0 ==
    ("barcode_id" :> BarcodeS0) @@ ("description" :> <<"d", "s">>) @@ ("name" :> <<>>)

SampleIdent == { SampleNone, SampleA, SampleS0 }

SplitOverride == ("algorithm" :> ("align_split_size" :> Some("1000")))

Samples ==
    { ("lane" :> <<"1">>) @@ ("genome_build" :> "hg19") @@ SampleNone,
      ("lane" :> <<"1">>) @@ ("genome_build" :> "hg19") @@ SampleNone @@ SplitOverride,
      ("lane" :> <<"1">>) @@ ("genome_build" :> "hg19") @@ SampleA @@
          ("analysis" :> Some("variant")) @@ ("algorithm" :> ("x" :> Some("3"))),
      ("lane" :> <<"2">>) @@ ("genome_build" :> "hg19") @@ SampleA @@ SplitOverride,
      ("lane" :> <<"1">>) @@ ("genome_build" :> "hg19") @@ SampleS0 }

SeqsUpTo(S, n) == UNION { [1..k -> S] : k \in 0..n }

GlobalConfigs ==
    { ("algorithm" :> ("x" :> Some("1"))) @@
      ("custom_algorithms" :> ((Some("variant") :> ("x" :> Some("2"))) @@
                               (Some("SNP calling") :> (("x" :> Some("4")) @@ ("y" :> Some("5")))))),
      ("algorithm" :> (("x" :> Some("1")) @@ ("align_split_size" :> Some("1000")))) @@
      ("custom_algorithms" :> EmptyDict) @@ ("distributed" :> EmptyDict),
      ("algorithm" :> (("x" :> Some("1")) @@ ("include_short_name" :> Some("False")))) @@
      ("custom_algorithms" :> (Some("variant") :> ("align_split_size" :> Some("500")))) @@
      ("distributed" :> ("align_split_size" :> None)),
      ("algorithm" :> ("x" :> Some("1"))) }

File1 == <<"r1">>

File2 == <<"r2">>

\* what split_by_barcode may return
BarcodeFileMaps ==
    { (None :> <<File1, None>>) @@ (BarcodeA :> <<File1, Some(File2)>>) @@
      (BarcodeS0 :> <<File1, Some(File2)>>),
      (BarcodeA :> <<File1, None>>),
      (None :> <<File1, Some(File2)>>) @@ (BarcodeS0 :> <<File1, None>>) }

\* how many chunks split_read_files may cut a pair into
ChunkCounts == 1..MaxChunks

(* ----------------------------- process_lane --------------------------- *)

PureIdle == res = None

LaneIdle ==
    /\ lane_items = <<>> /\ cfgHeap = <<>> /\ algHeap = <<>> /\ config = CallerRef
    /\ lane_name = <<>> /\ bc_files = EmptyDict /\ out = <<>> /\ i = 0
    /\ units = <<>> /\ plans = <<>>

Init ==
    /\ lane_items \in SeqsUpTo(Samples, MaxSamples)
    /\ \E g \in GlobalConfigs :
          /\ cfgHeap = << [g EXCEPT !["algorithm"] = CallerRef] >>
          /\ algHeap = << g["algorithm"] >>
          /\ inp = ("config" :> g)
    /\ config = CallerRef
    /\ lane_name = <<>>
    /\ bc_files = EmptyDict
    /\ out = <<>>
    /\ pc = "start"
    /\ i = 0
    /\ units = <<>>
    /\ plans = <<>>
    /\ calls = <<>>
    /\ PureIdle

\* lines 30-38; lane_items[0] raises IndexError on an empty list
Start ==
    /\ pc = "start"
    /\ IF lane_items = <<>>
       THEN /\ pc' = "raised"
            /\ UNCHANGED <<cfgHeap, algHeap, lane_name, bc_files, calls>>
       ELSE LET r == UpdateConfigWCustom(cfgHeap, algHeap, config, lane_items[1])
            IN  /\ cfgHeap' = r.cfgHeap
                /\ algHeap' = r.algHeap
                /\ lane_name' = BaseLaneName(lane_items, FcDate, FcName)
                /\ IF r.raised
                   THEN /\ pc' = "raised"
                        /\ UNCHANGED <<bc_files, calls>>
                   ELSE /\ pc' = "loop"
                        /\ \E m \in BarcodeFileMaps : bc_files' = m
                        /\ calls' = calls \o
                              << [fn |-> "get_fastq_files", config |-> r.ref],
                                 [fn |-> "split_by_barcode", config |-> config] >>
    /\ i' = 1
    /\ out' = <<>>
    /\ UNCHANGED <<lane_items, config, units, plans, inp, res>>

\* lines 39-44: one iteration's merge, the has_key test and the split plan
LoopItem ==
    /\ pc = "loop"
    /\ i <= Len(lane_items)
    /\ LET item == lane_items[i]
           r == UpdateConfigWCustom(cfgHeap, algHeap, config, item)
       IN  /\ cfgHeap' = r.cfgHeap
           /\ algHeap' = r.algHeap
           /\ config' = r.ref
           /\ IF r.raised
              THEN pc' = "raised" /\ UNCHANGED <<i, units, plans, calls>>
              ELSE IF item["barcode_id"] \in DOMAIN bc_files
                   THEN \E n \in ChunkCounts :
                          LET p == PrepFastqFiles(item, bc_files, Dirs,
                                        Deref(r.cfgHeap, r.algHeap, r.ref), n)
                          IN  /\ units' = p.units
                              /\ plans' = Append(plans, [item |-> i, config |-> r.ref,
                                                          units |-> p.units])
                              /\ calls' = calls \o p.calls
                              /\ pc' = "emit"
                              /\ UNCHANGED i
                   ELSE /\ i' = i + 1
                        /\ UNCHANGED <<pc, units, plans, calls>>
    /\ UNCHANGED <<lane_items, lane_name, bc_files, out, inp, res>>

\* lines 44-54: one pass of the inner loop
EmitRecord ==
    /\ pc = "emit"
    /\ units /= <<>>
    /\ LET u == Head(units)
           item == lane_items[i]
           alg == algHeap[cfgHeap[config]["algorithm"]]
       IN  out' = AppendRecord(out, Record(u[1], u[2], item,
                                           CurLaneName(lane_name, item, u[3]),
                                           CurLaneDesc(item, alg), Dirs, config))
    /\ units' = Tail(units)
    /\ IF Tail(units) = <<>>
       THEN pc' = "loop" /\ i' = i + 1
       ELSE UNCHANGED <<pc, i>>
    /\ UNCHANGED <<lane_items, cfgHeap, algHeap, config, lane_name, bc_files, plans,
                   calls, inp, res>>

\* line 65
Return ==
    /\ pc = "loop"
    /\ i > Len(lane_items)
    /\ pc' = "done"
    /\ UNCHANGED <<laneVars, calls, inp, res>>

Next == Start \/ LoopItem \/ EmitRecord \/ Return

Spec == Init /\ [][Next]_vars

(* ------------------------ claims on process_lane ---------------------- *)

Returned == pc = "done"

CallerConfig == Deref(cfgHeap, algHeap, CallerRef)

RecordConfig(r) == Deref(cfgHeap, algHeap, r.config)

Present(k) == lane_items[k]["barcode_id"] \in DOMAIN bc_files

RECURSIVE PlannedUnits(_)
\* The units of the split plans, in call order, each with the sample it is of.
PlannedUnits(ps) ==
    IF ps = <<>> THEN <<>>
    ELSE [k \in 1..Len(Head(ps).units) |->
             [item |-> Head(ps).item, config |-> Head(ps).config,
              unit |-> Head(ps).units[k]]] \o PlannedUnits(Tail(ps))

RECURSIVE PresentFrom(_)
\* The positions k..n of the samples whose barcode demultiplexing returned.
PresentFrom(k) ==
    IF k > Len(lane_items) THEN <<>>
    ELSE (IF Present(k) THEN <<k>> ELSE <<>>) \o PresentFrom(k + 1)

DistinctNames ==
    \A a, b \in 1..Len(out) : a /= b => out[a].lane_name /= out[b].lane_name

IsDigit(c) == c \in {"0", "1", "2", "3", "4", "5", "6", "7", "8", "9"}

\* s ends with "_s" and a decimal number
EndsLikeSplitSuffix(s) ==
    \E k \in 1..Len(s) :
        /\ k + 2 <= Len(s)
        /\ s[k] = "_" /\ s[k + 1] = "s"
        /\ \A j \in (k + 2)..Len(s) : IsDigit(s[j])

\* no barcode is "s<n>" or ends with "_s<n>"
NoBarcodeLikeSplitSuffix ==
    \A k \in 1..Len(lane_items) :
        lane_items[k]["barcode_id"] /= None =>
            ~EndsLikeSplitSuffix(<<"_">> \o lane_items[k]["barcode_id"][1])

DistinctPresentBarcodes ==
    \A a, b \in 1..Len(lane_items) :
        (a /= b /\ Present(a) /\ Present(b)) =>
            lane_items[a]["barcode_id"] /= lane_items[b]["barcode_id"]

DistinctPlanIndexes ==
    \A p \in 1..Len(plans) : \A a, b \in 1..Len(plans[p].units) :
        a /= b => plans[p].units[a][3] /= plans[p].units[b][3]

\* C1 as stated: any two distinct records of one call have different
\* lane-names, whatever the samples, the barcode file map and the split plans.
C1_AnyInputsDistinctNames == Returned => DistinctNames

\* C1 as amended: any two distinct records of one call have different
\* lane-names provided the samples found in the barcode file map have pairwise
\* different barcode_ids, the indexes of each split plan are pairwise different
\* non-negative integers, and no barcode_id is "s<n>" or ends with "_s<n>" for
\* a decimal number n.
C1_DistinctNames ==
    (Returned /\ DistinctPresentBarcodes /\ DistinctPlanIndexes /\ NoBarcodeLikeSplitSuffix)
        => DistinctNames

C1_Witness ==
    /\ Returned /\ DistinctPresentBarcodes /\ DistinctPlanIndexes /\ NoBarcodeLikeSplitSuffix
    /\ Len(out) >= 3
    /\ \E a, b \in 1..Len(out) : out[a].item /= out[b].item
    /\ \E a, b \in 1..Len(out) : a /= b /\ out[a].item = out[b].item

\* merge(globalConfig, S): the merge applied to the configuration passed to the call
MergeOfGlobal(S) ==
    LET g == inp["config"]
        m == UpdateConfigWCustom(<< [g EXCEPT !["algorithm"] = 1] >>, << g["algorithm"] >>, 1, S)
    IN  Deref(m.cfgHeap, m.algHeap, m.ref)

\* C2: the configuration carried by every record of sample S equals
\* merge(globalConfig, S), whatever samples were processed before S.
C2_RecordConfigIsMergeOfGlobal ==
    \A k \in 1..Len(out) : RecordConfig(out[k]) = MergeOfGlobal(out[k].item)

\* C5: the returned records, projected to (sample, fastq1, fastq2), are the
\* split plans of the samples found in the barcode file map, concatenated in
\* input order and each in its own order; a sample not in the map has no
\* record, and a sample for which the configuration process_lane holds at its
\* turn resolves no split size has exactly the one record of its
\* demultiplexed pair.
C5_OutputIsConcatenationOfPlans ==
    Returned =>
        /\ [p \in 1..Len(plans) |-> plans[p].item] = PresentFrom(1)
        /\ [k \in 1..Len(out) |-> <<out[k].item, out[k].fastq1, out[k].fastq2>>]
             = [k \in 1..Len(PlannedUnits(plans)) |->
                  <<lane_items[PlannedUnits(plans)[k].item],
                    PlannedUnits(plans)[k].unit[1], PlannedUnits(plans)[k].unit[2]>>]
        /\ \A p \in 1..Len(plans) :
              ~Truthy(SplitSize(Deref(cfgHeap, algHeap, plans[p].config))) =>
                  plans[p].units =
                     << <<bc_files[lane_items[plans[p].item]["barcode_id"]][1],
                          bc_files[lane_items[plans[p].item]["barcode_id"]][2], None>> >>

C5_Witness ==
    /\ Returned
    /\ Len(lane_items) >= 2
    /\ ~Present(1) /\ Present(2)
    /\ Len(plans) = 1 /\ Len(plans[1].units) >= 2
    /\ Len(out) >= 2

\* the name the claim gives a record of sample S and split index ext
NameOf(S, ext) ==
    lane_items[1]["lane"] \o <<"_">> \o FcDate \o <<"_">> \o FcName
      \o (IF S["barcode_id"] = None THEN <<>> ELSE <<"_">> \o S["barcode_id"][1])
      \o (IF ext = None THEN <<>> ELSE <<"_", "s">> \o Str(ext[1]))

\* C6: every record's lane-name is the base name "{lane of first
\* sample}_{date}_{flowcell}", then "_{barcode_id}" exactly when the barcode is
\* not null, then "_s{i}" exactly when the unit's index i is not null; a record
\* whose configuration resolves no split size has no "_s{i}" part, and chunks
\* 0 and 1 of one plan give names ending _s0 and _s1 in that order.
C6_LaneNameFormat ==
    LET pu == PlannedUnits(plans)
    IN  /\ Len(out) <= Len(pu)
        /\ \A k \in 1..Len(out) :
              /\ out[k].item = lane_items[pu[k].item]
              /\ out[k].lane_name = NameOf(out[k].item, pu[k].unit[3])
              /\ ~Truthy(SplitSize(RecordConfig(out[k]))) =>
                    out[k].lane_name = NameOf(out[k].item, None)
        /\ \A k \in 1..(Len(out) - 1) :
              (pu[k].item = pu[k + 1].item /\ pu[k].unit[3] = Some(0)
                 /\ pu[k + 1].unit[3] = Some(1)) =>
                  /\ EndsWith(out[k].lane_name, <<"_", "s", "0">>)
                  /\ EndsWith(out[k + 1].lane_name, <<"_", "s", "1">>)

C6_Witness ==
    /\ Returned
    /\ \E k \in 1..(Len(out) - 1) :
          /\ out[k].item["barcode_id"] /= None
          /\ EndsWith(out[k].lane_name, <<"_", "s", "0">>)
          /\ EndsWith(out[k + 1].lane_name, <<"_", "s", "1">>)
    /\ \E k \in 1..Len(out) :
          out[k].item["barcode_id"] = None /\ PlannedUnits(plans)[k].unit[3] = None

\* C10: the configuration object passed to the call keeps every key and
\* value, its algorithm mapping included, through every merge and the whole
\* call, and no returned configuration is, or shares its algorithm mapping
\* with, the caller's object.
C10_CallerConfigUnchanged ==
    /\ CallerConfig = inp["config"]
    /\ \A k \in 1..Len(out) :
          /\ out[k].config /= CallerRef
          /\ cfgHeap[out[k].config]["algorithm"] /= cfgHeap[CallerRef]["algorithm"]
    /\ pc \in {"loop", "emit", "done"} =>
          \A r \in 2..Len(cfgHeap) :
              cfgHeap[r]["algorithm"] /= cfgHeap[CallerRef]["algorithm"]

C10_Witness ==
    /\ Returned
    /\ Len(out) >= 2
    /\ \E k \in 1..Len(out) :
          RecordConfig(out[k])["algorithm"] /= CallerConfig["algorithm"]

(* ================= _update_config_w_custom on its own ================= *)

MergeAlgorithms ==
    { EmptyDict, ("x" :> Some("1")), ("x" :> Some("1")) @@ ("z" :> Some("7")) }

\* the bundles are keyed by analysis-type names
MergeCustoms ==
    { EmptyDict,
      (Some("variant") :> ("x" :> Some("2"))),
      (Some("SNP calling") :> (("x" :> Some("4")) @@ ("y" :> Some("5")))) @@
          (Some("variant") :> ("x" :> Some("2"))),
      (Some("SNP calling") :> ("y" :> Some("5"))) @@
          (Some("variant") :> (("x" :> Some("2")) @@ ("y" :> Some("6")))),
      (Some("Standard") :> ("x" :> Some("8"))) @@ (Some("variant") :> EmptyDict) }

MergeConfigs ==
    { ("algorithm" :> a) @@ ("custom_algorithms" :> c) :
          a \in MergeAlgorithms, c \in MergeCustoms }
    \cup { ("algorithm" :> a) : a \in MergeAlgorithms }

MergeSamples ==
    { ("description" :> <<"d">>) @@ an @@ al :
          an \in { EmptyDict, ("analysis" :> Some("variant")),
                   ("analysis" :> Some("SNP calling")), ("analysis" :> Some("Standard")) },
          al \in { EmptyDict, ("algorithm" :> EmptyDict),
                   ("algorithm" :> ("x" :> Some("3"))),
                   ("algorithm" :> (("y" :> None) @@ ("w" :> Some("0")))) } }

InitMerge ==
    /\ \E g \in MergeConfigs, s \in MergeSamples :
          /\ inp = ("config" :> g) @@ ("lane_info" :> s)
          /\ cfgHeap = << [g EXCEPT !["algorithm"] = CallerRef] >>
          /\ algHeap = << g["algorithm"] >>
    /\ config = CallerRef
    /\ lane_items = <<>> /\ lane_name = <<>> /\ bc_files = EmptyDict /\ out = <<>>
    /\ i = 0 /\ units = <<>> /\ plans = <<>>
    /\ pc = "call"
    /\ calls = <<>>
    /\ PureIdle

\* lines 126-141; config then names what the call returned
UpdateCall ==
    /\ pc = "call"
    /\ LET r == UpdateConfigWCustom(cfgHeap, algHeap, config, inp["lane_info"])
       IN  /\ cfgHeap' = r.cfgHeap
           /\ algHeap' = r.algHeap
           /\ config' = r.ref
           /\ pc' = IF r.raised THEN "raised" ELSE "returned"
    /\ UNCHANGED <<lane_items, lane_name, bc_files, out, i, units, plans, calls, inp, res>>

NextMerge == UpdateCall

SpecMerge == InitMerge /\ [][NextMerge]_vars

(* ----------------- claims on _update_config_w_custom ------------------ *)

\* the last bundle, in the list order of the sample's analysis, that exists and has key k
LastBundleWith(k) ==
    LET types == IF Get(inp["lane_info"], "analysis", None) \in
                      {Some("variant"), Some("SNP calling")}
                 THEN <<Some("SNP calling"), Some("variant")>>
                 ELSE <<Get(inp["lane_info"], "analysis", None)>>
        custom == inp["config"]["custom_algorithms"]
        has(j) == types[j] \in DOMAIN custom /\ k \in DOMAIN custom[types[j]]
        hits == { j \in 1..Len(types) : has(j) }
    IN  IF hits = {} THEN None
        ELSE Some(custom[types[CHOOSE j \in hits : \A h \in hits : h <= j]][k])

\* C3: each key of the returned algorithm mapping has the sample's own
\* override if there is one, else the value of the last bundle of the sample's
\* analysis (in the synonym list's order) that exists and has the key, else the
\* global value; global x=1, bundle x=2, sample x=3 gives x=3; and with no
\* analysis and no overrides the algorithm mapping is the global one.
C3_OverridePrecedence ==
    pc = "returned" =>
        LET got == Deref(cfgHeap, algHeap, config)["algorithm"]
            own == Get(inp["lane_info"], "algorithm", EmptyDict)
            glob == inp["config"]["algorithm"]
        IN  /\ \A k \in DOMAIN got :
                  got[k] = IF k \in DOMAIN own THEN own[k]
                           ELSE IF LastBundleWith(k) /= None THEN LastBundleWith(k)[1]
                           ELSE glob[k]
            /\ (Get(glob, "x", None) = Some("1") /\ LastBundleWith("x") = Some(Some("2"))
                  /\ Get(own, "x", None) = Some("3")) => got["x"] = Some("3")
            /\ ("analysis" \notin DOMAIN inp["lane_info"] /\ own = EmptyDict) => got = glob

C3_Witness ==
    /\ pc = "returned"
    /\ Get(inp["config"]["algorithm"], "x", None) = Some("1")
    /\ Some("SNP calling") \in DOMAIN inp["config"]["custom_algorithms"]
    /\ Get(inp["config"]["custom_algorithms"][Some("SNP calling")], "x", None) = Some("4")
    /\ LastBundleWith("x") = Some(Some("2"))
    /\ Get(Get(inp["lane_info"], "algorithm", EmptyDict), "x", None) = Some("3")
    /\ Deref(cfgHeap, algHeap, config)["algorithm"]["x"] = Some("3")

\* C9: the merge never raises, whatever the configuration and the sample,
\* also when the configuration has no custom_algorithms mapping.
C9_MergeNeverRaises == pc /= "raised"

(* ===================== _prep_fastq_files on its own =================== *)

PrepDistributed ==
    { EmptyDict,
      ("distributed" :> EmptyDict),
      ("distributed" :> ("align_split_size" :> None)),
      ("distributed" :> ("align_split_size" :> Some("1000"))) }

PrepAlgorithms ==
    { ("x" :> Some("1")),
      ("align_split_size" :> None),
      ("align_split_size" :> Some("2000")) }

PrepConfigs ==
    { ("algorithm" :> a) @@ ("custom_algorithms" :> EmptyDict) @@ d :
          a \in PrepAlgorithms, d \in PrepDistributed }

PrepItems ==
    { ("lane" :> <<"1">>) @@ ("genome_build" :> "hg19") @@ id : id \in SampleIdent }

InitPrep ==
    /\ \E it \in PrepItems, m \in BarcodeFileMaps, c \in PrepConfigs :
          /\ it["barcode_id"] \in DOMAIN m
          /\ inp = ("item" :> it) @@ ("bc_files" :> m) @@ ("config" :> c)
    /\ LaneIdle
    /\ pc = "call"
    /\ calls = <<>>
    /\ res = None

\* lines 15-25; res is the returned list of units
PrepCall ==
    /\ pc = "call"
    /\ \E n \in ChunkCounts :
          LET p == PrepFastqFiles(inp["item"], inp["bc_files"], Dirs, inp["config"], n)
          IN  /\ res' = Some(p.units)
              /\ calls' = calls \o p.calls
    /\ pc' = "returned"
    /\ UNCHANGED <<laneVars, inp>>

NextPrep == PrepCall

SpecPrep == InitPrep /\ [][NextPrep]_vars

(* --------------------- claims on _prep_fastq_files -------------------- *)

\* the value of section.align_split_size, None when the key or the section is missing
SplitSetting(section) ==
    IF section \in DOMAIN inp["config"]
    THEN Get(inp["config"][section], "align_split_size", None)
    ELSE None

\* C4: the split size is the first non-null value among
\* distributed.align_split_size and algorithm.align_split_size; the splitter
\* is invoked with the algorithm value when the distributed one is missing or
\* null, with the distributed value when that is set, and not at all when
\* neither is set, the result then being the one unit (fastq1, fastq2, null).
C4_SplitSizeResolution ==
    pc = "returned" =>
        LET pair == inp["bc_files"][inp["item"]["barcode_id"]]
            want == IF SplitSetting("distributed") /= None
                    THEN SplitSetting("distributed")
                    ELSE SplitSetting("algorithm")
        IN  IF want /= None
            THEN /\ Len(calls) = 1
                 /\ calls[1].fn = "split_read_files"
                 /\ calls[1].split_size = want
            ELSE /\ calls = <<>>
                 /\ res = Some(<< <<pair[1], pair[2], None>> >>)

(* ============================== trim_lane ============================= *)

\* what the trimming collaborators return for one file of their list
Trimmed(f, how) == IF f = None THEN None ELSE Some(<<f[1][1], how>>)

\* brun_trim_fastq(files, dirs, config): same arity, same order
BrunTrimFastq(files) == [k \in 1..Len(files) |-> Trimmed(files[k], "brun")]

\* cutadapt_trim(files, dirs, config): same arity, same order
CutadaptTrim(files) == [k \in 1..Len(files) |-> Trimmed(files[k], "cutadapt")]

\* Both slots passed on, the null one too.
ToTrimUnfiltered(fastq1, fastq2) == <<fastq1, fastq2>>

\* [x for x in [fastq1, fastq2] if x is not None]
ToTrim(fastq1, fastq2) ==
    (IF fastq1 /= None THEN <<fastq1>> ELSE <<>>) \o
    (IF fastq2 /= None THEN <<fastq2>> ELSE <<>>)

\* config["algorithm"].get("trimmer", "low_quality")
Trimmer(alg) == Get(alg, "trimmer", Some("low_quality"))

\* The returned files and the collaborator calls; a file slot is None or Some(file).
TrimLane(fastq1, fastq2, cfg) ==
    IF ~Truthy(Get(cfg["algorithm"], "trim_reads", Some("False")))
    THEN [fastq1 |-> fastq1, fastq2 |-> fastq2, calls |-> <<>>]
    ELSE LET trimmer == Trimmer(cfg["algorithm"])
             to_trim == ToTrim(fastq1, fastq2)
             out_files == IF trimmer = Some("low_quality") THEN BrunTrimFastq(to_trim)
                          ELSE IF trimmer = Some("adapter") THEN CutadaptTrim(to_trim)
                          ELSE <<fastq1, fastq2>>
         IN  [fastq1 |-> out_files[1],
              fastq2 |-> IF fastq2 /= None THEN out_files[2] ELSE fastq2,
              calls |-> IF trimmer = Some("low_quality")
                        THEN << [fn |-> "brun_trim_fastq", files |-> to_trim] >>
                        ELSE IF trimmer = Some("adapter")
                        THEN << [fn |-> "cutadapt_trim", files |-> to_trim] >>
                        ELSE <<>>]

TrimAlgorithms ==
    { tr @@ tm :
        tr \in { EmptyDict, ("trim_reads" :> Some("False")), ("trim_reads" :> Some("True")),
                 ("trim_reads" :> None) },
        tm \in { EmptyDict, ("trimmer" :> Some("low_quality")), ("trimmer" :> Some("adapter")),
                 ("trimmer" :> Some("fastx")), ("trimmer" :> None) } }

TrimInfo == ("lane" :> <<"1">>) @@ ("genome_build" :> "hg19") @@
            ("barcode_id" :> BarcodeA) @@ ("description" :> <<"d", "a">>)

InitTrim ==
    /\ \E a \in TrimAlgorithms, f1 \in {File1, <<"r3">>}, f2 \in {None, Some(File2)} :
          inp = [fastq1 |-> Some(f1), fastq2 |-> f2, info |-> TrimInfo,
                 lane_name |-> <<"1", "_", "A">>, lane_desc |-> <<"d", "a">>, dirs |-> Dirs,
                 config |-> ("algorithm" :> a) @@ ("custom_algorithms" :> EmptyDict)]
    /\ LaneIdle
    /\ pc = "call"
    /\ calls = <<>>
    /\ res = None

\* lines 68-101; res is the returned one-element list
TrimCall ==
    /\ pc = "call"
    /\ LET t == TrimLane(inp.fastq1, inp.fastq2, inp.config)
       IN  /\ res' = Some(<< [inp EXCEPT !.fastq1 = t.fastq1, !.fastq2 = t.fastq2] >>)
           /\ calls' = calls \o t.calls
    /\ pc' = "returned"
    /\ UNCHANGED <<laneVars, inp>>

NextTrim == TrimCall

SpecTrim == InitTrim /\ [][NextTrim]_vars

(* -------------------------- claims on trim_lane ----------------------- *)

NonNullInputs ==
    <<inp.fastq1>> \o (IF inp.fastq2 = None THEN <<>> ELSE <<inp.fastq2>>)

\* C8: with trim_reads absent or false the record comes back with the input
\* files and no trimming collaborator runs; otherwise an absent trimmer or
\* "low_quality" runs only the quality trim, "adapter" only the adapter trim,
\* any other value none (the files come back unchanged); a collaborator gets
\* exactly the non-null files, and a null fastq2 stays null.
C8_TrimSelection ==
    pc = "returned" =>
        LET alg == inp.config["algorithm"]
            rec == res[1][1]
            on == "trim_reads" \in DOMAIN alg /\ alg["trim_reads"] = Some("True")
            which == IF ~on THEN "none"
                     ELSE IF "trimmer" \notin DOMAIN alg THEN "brun_trim_fastq"
                     ELSE IF alg["trimmer"] = Some("low_quality") THEN "brun_trim_fastq"
                     ELSE IF alg["trimmer"] = Some("adapter") THEN "cutadapt_trim"
                     ELSE "none"
        IN  /\ Len(res[1]) = 1
            /\ [rec EXCEPT !.fastq1 = inp.fastq1, !.fastq2 = inp.fastq2] = inp
            /\ IF which = "none"
               THEN calls = <<>> /\ rec = inp
               ELSE /\ Len(calls) = 1
                    /\ calls[1].fn = which
                    /\ calls[1].files = NonNullInputs
                    /\ rec.fastq1 /= None /\ rec.fastq1 /= inp.fastq1
            /\ inp.fastq2 = None => rec.fastq2 = None

C8_Witness ==
    /\ pc = "returned"
    /\ "trimmer" \notin DOMAIN inp.config["algorithm"]
    /\ inp.fastq2 = None
    /\ Len(calls) = 1 /\ calls[1].fn = "brun_trim_fastq" /\ Len(calls[1].files) = 1
    /\ res[1][1].fastq1 /= inp.fastq1

(* =========================== process_alignment ======================= *)

\* the last position of character c in s, 0 when there is none (str.rfind + 1)
RFind(s, c) ==
    IF \E k \in 1..Len(s) : s[k] = c
    THEN CHOOSE k \in 1..Len(s) : s[k] = c /\ \A j \in (k + 1)..Len(s) : s[j] /= c
    ELSE 0

\* os.path.basename(p)
Basename(p) == SubSeq(p, RFind(p, "/") + 1, Len(p))

\* The root cut at the first dot of the name.
SplitextRootFirstDot(p) ==
    LET name == Basename(p)
        dots == { k \in 1..Len(name) : name[k] = "." }
    IN  IF dots = {} THEN p
        ELSE SubSeq(p, 1, Len(p) - Len(name) + (CHOOSE k \in dots : \A j \in dots : k <= j) - 1)

\* os.path.splitext(p)[0]: cut at the last dot after the last separator,
\* unless only dots lie between the separator and it
SplitextRoot(p) ==
    LET sep == RFind(p, "/")
        dot == RFind(p, ".")
    IN  IF dot > sep /\ \E k \in (sep + 1)..(dot - 1) : p[k] /= "."
        THEN SubSeq(p, 1, dot - 1)
        ELSE p

\* os.path.join(a, b)
Join(a, b) ==
    IF b /= <<>> /\ b[1] = "/" THEN b
    ELSE IF a = <<>> \/ a[Len(a)] = "/" THEN a \o b
    ELSE a \o <<"/">> \o b

BamExt == <<".", "b", "a", "m">>

\* align_to_sort_bam / picard_sort give back the path ret; the decision of
\* lines 108-122.  exists is os.path.exists(fastq1).
ProcessAlignment(fastq1, fastq2, info, name, desc, dirs, cfg, exists, ret) ==
    LET aligner == Get(cfg["algorithm"], "aligner", None)
    IN  IF exists /\ Truthy(aligner)
        THEN [out_bam |-> ret,
              calls |-> << [fn |-> "align_to_sort_bam", fastq1 |-> fastq1, fastq2 |-> fastq2,
                            genome_build |-> info["genome_build"], aligner |-> aligner,
                            lane_name |-> name, lane_desc |-> desc, ret |-> ret] >>]
        ELSE IF exists /\ EndsWith(fastq1, BamExt)
        THEN LET sort_method == Get(cfg["algorithm"], "bam_sort", None)
                 out_file == Join(dirs.work,
                                  SplitextRoot(Basename(fastq1)) \o
                                      <<"-", "s", "o", "r", "t", ".", "b", "a", "m">>)
             IN  IF Truthy(sort_method)
                 THEN [out_bam |-> ret,
                       calls |-> << [fn |-> "picard_sort", fastq1 |-> fastq1,
                                     sort_method |-> sort_method, out_file |-> out_file,
                                     ret |-> ret] >>]
                 ELSE [out_bam |-> fastq1, calls |-> <<>>]
        ELSE [out_bam |-> <<>>, calls |-> <<>>]

\* the pieces an input path is written from: directory, stem, extension
PathParts ==
    { [dir |-> d, stem |-> st, ext |-> e] :
        d \in { <<>>, <<"d", ".", "x", "/">> },
        st \in { <<"a">>, <<"a", ".", "b">>, <<"b", "a", "m">> },
        e \in { BamExt, <<".", "f", "q">>, <<>> } }

AlignAlgorithms ==
    { al @@ so :
        al \in { EmptyDict, ("aligner" :> None), ("aligner" :> Some("bwa")) },
        so \in { EmptyDict, ("bam_sort" :> None), ("bam_sort" :> Some("coordinate")) } }

\* the paths a collaborator may give back
ToolOutputs == { <<"w", "/", "o", ".", "b", "a", "m">>, <<"t">> }

InitAlign ==
    /\ \E pp \in PathParts, a \in AlignAlgorithms, e \in BOOLEAN, f2 \in {None, Some(File2)} :
          inp = [fastq1 |-> pp.dir \o pp.stem \o pp.ext, parts |-> pp, exists |-> e,
                 fastq2 |-> f2, info |-> TrimInfo, lane_name |-> <<"1", "_", "A">>,
                 lane_desc |-> <<"d", "a">>, dirs |-> Dirs,
                 config |-> ("algorithm" :> a) @@ ("custom_algorithms" :> EmptyDict)]
    /\ LaneIdle
    /\ pc = "call"
    /\ calls = <<>>
    /\ res = None

\* lines 104-124; res is the returned one-element list
AlignCall ==
    /\ pc = "call"
    /\ \E ret \in ToolOutputs :
          LET r == ProcessAlignment(inp.fastq1, inp.fastq2, inp.info, inp.lane_name,
                                    inp.lane_desc, inp.dirs, inp.config, inp.exists, ret)
          IN  /\ res' = Some(<< [fastq |-> <<inp.fastq1, inp.fastq2>>, out_bam |-> r.out_bam,
                                 info |-> inp.info, config |-> inp.config] >>)
              /\ calls' = calls \o r.calls
    /\ pc' = "returned"
    /\ UNCHANGED <<laneVars, inp>>

NextAlign == AlignCall

SpecAlign == InitAlign /\ [][NextAlign]_vars

(* ---------------------- claims on process_alignment ------------------- *)

AlignerSet ==
    "aligner" \in DOMAIN inp.config["algorithm"] /\ inp.config["algorithm"]["aligner"] /= None

BamSortSet ==
    "bam_sort" \in DOMAIN inp.config["algorithm"] /\ inp.config["algorithm"]["bam_sort"] /= None

\* C7: the output path follows the first matching rule: (1) fastq1 missing:
\* the empty path, no collaborator; (2) aligner set: the aligner's return value,
\* also for a .bam input; (3) fastq1 ending in .bam: the sort collaborator's
\* result for "{basename}-sort.bam" under the work directory when bam_sort is
\* set, fastq1 itself when it is not; (4) the empty path.  The fastq pair, the
\* sample info and the configuration come back unchanged.
C7_AlignDecision ==
    pc = "returned" =>
        LET r == res[1][1]
            isBam == inp.parts.ext = BamExt
        IN  /\ Len(res[1]) = 1
            /\ r.fastq = <<inp.fastq1, inp.fastq2>>
            /\ r.info = inp.info
            /\ r.config = inp.config
            /\ IF ~inp.exists
               THEN r.out_bam = <<>> /\ calls = <<>>
               ELSE IF AlignerSet
               THEN /\ Len(calls) = 1
                    /\ calls[1].fn = "align_to_sort_bam"
                    /\ r.out_bam = calls[1].ret
               ELSE IF isBam
               THEN IF BamSortSet
                    THEN /\ Len(calls) = 1
                         /\ calls[1].fn = "picard_sort"
                         /\ calls[1].out_file =
                               inp.dirs.work \o <<"/">> \o inp.parts.stem \o
                                   <<"-", "s", "o", "r", "t", ".", "b", "a", "m">>
                         /\ r.out_bam = calls[1].ret
                    ELSE r.out_bam = inp.fastq1 /\ calls = <<>>
               ELSE r.out_bam = <<>> /\ calls = <<>>

C7_Witness ==
    /\ pc = "returned"
    /\ inp.exists /\ ~AlignerSet /\ BamSortSet
    /\ inp.parts = [dir |-> <<"d", ".", "x", "/">>, stem |-> <<"a", ".", "b">>, ext |-> BamExt]
    /\ Len(calls) = 1 /\ calls[1].fn = "picard_sort"
    /\ res[1][1].out_bam = calls[1].ret

====
